---- MODULE Spec2Model ----
(***************************************************************************)
(* github-hosts: the hosts-data service (src/src/services/hosts.ts), the   *)
(* HTTP routes (src/src/index.ts) and the fixed-window rate limiter        *)
(* (src/src/middleware/rate-limit.ts).                                     *)
(*                                                                         *)
(* Timestamps.  The code stores timestamps as Date.toISOString() strings   *)
(* (millisecond precision) and reads them back with new Date(s).getTime(); *)
(* a timestamp is represented here by its epoch-millisecond value, which   *)
(* is what both conversions preserve.  A stored timestamp string is never  *)
(* empty, so the truthiness tests of the code (!kvData?.lastUpdated,       *)
(* existingData?.lastChecked) are tests for presence.                      *)
(*                                                                         *)
(* Await points.  A handler is suspended at every KV get/put/delete and at *)
(* every resolver call; each action below is one such operation together   *)
(* with the synchronous code that runs when it completes.                  *)
(***************************************************************************)
EXTENDS Integers, Sequences, FiniteSets, TLC

\* ------------------------------------------------------------------ bounds
\* The rate limiter's clock advances in steps of RlTickMs, at most MaxRlTicks
\* times; at most MaxRequests requests are issued per rate-limit key.
MaxRlTicks == 2
MaxRequests == 6

\* The clock advances in steps of TickMs: at most MaxTicks times while calls
\* run one after another, at most MaxTicksOverlap times while they overlap.
MaxTicks == 3
MaxTicksOverlap == 2

\* --------------------------------------------------------------- constants
\* const DOMAIN_CACHE_TTL_MS = 60 * 60 * 1000
DOMAIN_CACHE_TTL_MS == 60 * 60 * 1000

\* Granularity of the modelled clock: half of the freshness window, so that
\* ages of 0, 1/2, 1 and 3/2 windows all occur.
TickMs == DOMAIN_CACHE_TTL_MS \div 2

\* The configured domain list (src/constants.ts, GITHUB_URLS), in order.
GITHUB_URLS == <<"github.com", "api.github.com">>

Domains == {GITHUB_URLS[i] : i \in 1..Len(GITHUB_URLS)}

\* Addresses a DNS-over-HTTPS provider may answer with.
IPs == {"140.82.112.3", "140.82.112.4"}

\* fetchIPFromIPAddress returns string | null.
NoIP == "null"

\* The request handlers that may run concurrently.
Procs == {1, 2}

\* An absent value (null / undefined) is the empty sequence, a present value
\* v is <<v>>.
None == <<>>
Some(v) == <<v>>

VARIABLES
    now,          \* Date.now()
    kv,           \* KV key "domain_data": None, or Some(KVData)
    pc,           \* per handler: the await point it is suspended at
    op,           \* per handler: the exported function it runs
    domain,       \* getDomainData: its domain argument
    kvData,       \* local kvData / newKvData
    ip,           \* getDomainData: the resolver's answer
    newEntries,   \* getHostsData / resetHostsData: result of fetchLatestHostsData
    currentTime,  \* updateHostsData: const currentTime
    result,       \* the value the function returned
    path,         \* history: the branch the returned call took
    afterReset,   \* history: the handler's previous call was resetHostsData
    overwritten,  \* history: the snapshot was put or deleted by another
                  \* handler after this one read it
    resolver,     \* environment: the addresses the DNS provider may answer
                  \* with, per domain (none: the resolution always fails)
    httpReq,      \* the HTTP request being served: None, or Some(request)
    httpResp,     \* its response: None, or Some(response)
    rlPc,         \* rateLimit, per handler: the await point
    rlHeader,     \* rateLimit: the cf-connecting-ip header of the request
    rlWindowStart,\* rateLimit: const windowStart
    rlCurrent,    \* rateLimit: const current
    rlNth,        \* history: the request is the n-th issued for its key
    rlResp,       \* rateLimit: None, or Some(outcome of the request)
    counters,     \* KV keys "ratelimit:{normalizedIP}:{windowStart}"
    issued,       \* history: requests issued per rate-limit key
    rlAdmitted,   \* history: requests passed to next() per rate-limit key
    normIn,       \* normalizeIP: its argument, ip.split(":")
    normOut,      \* normalizeIP(ip): None, or Some(result)
    normTwice,    \* normalizeIP(normalizeIP(ip)): None, or Some(result)
    dnsPc,        \* fetchIPFromIPAddress: where the call is suspended
    dnsDomain,    \* fetchIPFromIPAddress: its domain argument
    dnsProvider,  \* fetchIPFromIPAddress: const provider (its name)
    dnsRetries,   \* retry: its retries argument
    dnsDelay,     \* retry: its delay argument
    dnsRequests,  \* history: fetch calls made by the call
    dnsSlept,     \* history: the delays the call slept
    dnsLast,      \* history: the outcome of the latest fetch, if any
    dnsResult,    \* None, or Some(value returned); null is <<>>
    fbPc,         \* fetchLatestHostsData: where the run is suspended
    fbI,          \* fetchLatestHostsData: the loop variable i
    fbPending,    \* the domains whose fetchIPFromIPAddress call is in flight
    fbAnswer,     \* what the calls that have returned returned, per domain
    fbEntries     \* fetchLatestHostsData: const entries

locals == <<pc, domain, kvData, ip, newEntries, currentTime, result, path>>

serviceVars == <<kv, pc, op, domain, kvData, ip, newEntries, currentTime,
                 result, path, afterReset, overwritten, resolver>>

httpVars == <<httpReq, httpResp>>

rlVars == <<rlPc, rlHeader, rlWindowStart, rlCurrent, rlNth, rlResp, counters,
            issued, rlAdmitted>>

normVars == <<normIn, normOut, normTwice>>

dnsVars == <<dnsPc, dnsDomain, dnsProvider, dnsRetries, dnsDelay, dnsRequests,
             dnsSlept, dnsLast, dnsResult>>

fbVars == <<fbPc, fbI, fbPending, fbAnswer, fbEntries>>

auxVars == <<normVars, dnsVars, fbVars>>

vars == <<now, serviceVars, httpVars, rlVars, auxVars>>

\* ------------------------------------------------------------ data helpers
\* interface DomainData { ip, lastUpdated, lastChecked }
DomainData(i, lu, lc) == [ip |-> i, lastUpdated |-> lu, lastChecked |-> lc]

\* {} as DomainDataList
EmptyDomainData == [d \in {} |-> DomainData(NoIP, 0, 0)]

\* obj[key] = value
SetKey(obj, key, value) ==
    [k \in (DOMAIN obj) \cup {key} |-> IF k = key THEN value ELSE obj[k]]

\* interface KVData { domain_data, lastUpdated }
KVData(dd, lu) == [domain_data |-> dd, lastUpdated |-> lu]

\* kvData?.domain_data?.[domain]
Lookup(snap, d) ==
    IF snap # None /\ d \in DOMAIN snap[1].domain_data
    THEN Some(snap[1].domain_data[d])
    ELSE None

\* ------------------------------------------------ fetchLatestHostsData
\* const batchSize = 5
batchSize == 5

\* GITHUB_URLS.slice(i, i + batchSize), 0-based i
Slice(s, i, n) == SubSeq(s, i + 1, IF i + n < Len(s) THEN i + n ELSE Len(s))

\* batch.map(...).filter(result !== null): answer[d] is what
\* fetchIPFromIPAddress(d) returned
RECURSIVE BatchResults(_, _)
BatchResults(batch, answer) ==
    IF batch = <<>> THEN <<>>
    ELSE (IF answer[Head(batch)] # NoIP
          THEN << <<answer[Head(batch)], Head(batch)>> >>
          ELSE <<>>) \o BatchResults(Tail(batch), answer)

\* the for loop over the batches, from index i on
RECURSIVE FetchFrom(_, _)
FetchFrom(i, answer) ==
    IF i < Len(GITHUB_URLS)
    THEN BatchResults(Slice(GITHUB_URLS, i, batchSize), answer)
             \o FetchFrom(i + batchSize, answer)
    ELSE <<>>

fetchLatestHostsData(answer) == FetchFrom(0, answer)

\* Every outcome of the fetchIPFromIPAddress calls of one run.
ResolverAnswers ==
    {answer \in [Domains -> IPs \cup {NoIP}] :
        \A d \in Domains : answer[d] \in resolver[d] \cup {NoIP}}

\* ------------------------------------------------------- updateHostsData
\* faulty variant: every entry is stamped as changed
RECURSIVE UpdateEntries_Overwrite(_, _, _)
UpdateEntries_Overwrite(dd, entries, t) ==
    IF entries = <<>> THEN dd
    ELSE UpdateEntries_Overwrite(
             SetKey(dd, entries[1][2], DomainData(entries[1][1], t, t)),
             Tail(entries), t)

\* for (const [ip, domain] of newEntries) { ... }
RECURSIVE UpdateEntries(_, _, _)
UpdateEntries(dd, entries, t) ==
    IF entries = <<>> THEN dd
    ELSE LET i == entries[1][1]
             d == entries[1][2]
             hasOld == d \in DOMAIN dd
             hasChanged == ~hasOld \/ dd[d].ip # i
         IN  UpdateEntries(
                 SetKey(dd, d,
                     DomainData(i,
                         IF hasChanged THEN t ELSE dd[d].lastUpdated,
                         t)),
                 Tail(entries), t)

\* if (!newEntries): for (const domain in kvData.domain_data) lastChecked = t
TouchAll(dd, t) == [d \in DOMAIN dd |-> [dd[d] EXCEPT !.lastChecked = t]]

\* faulty variant: the snapshot is rebuilt from the entries alone
UpdatedSnapshot_Rebuild(stored, entries, t) ==
    KVData(IF entries = None THEN EmptyDomainData
           ELSE UpdateEntries(EmptyDomainData, entries[1], t), t)

\* The snapshot updateHostsData puts, from the snapshot it read (stored),
\* its argument (entries: None when omitted) and its currentTime.
UpdatedSnapshot(stored, entries, t) ==
    LET cur == IF stored # None THEN stored[1] ELSE KVData(EmptyDomainData, t)
    IN  KVData(IF entries = None
               THEN TouchAll(cur.domain_data, t)
               ELSE UpdateEntries(cur.domain_data, entries[1], t),
               t)

\* ---------------------------------------------------------- getHostsData
\* faulty variant: stale from exactly one hour on
IsStale_NonStrict(snap, t) ==
    \/ snap = None
    \/ snap[1].lastUpdated + 1000 * 60 * 60 <= t
    \/ Cardinality(DOMAIN snap[1].domain_data) = 0

\* the staleness test of getHostsData
IsStale(snap, t) ==
    \/ snap = None
    \/ snap[1].lastUpdated + 1000 * 60 * 60 < t
    \/ Cardinality(DOMAIN snap[1].domain_data) = 0

\* for (const domain of GITHUB_URLS) if (domain_data[domain]) entries.push(...)
RECURSIVE Project(_, _)
Project(dd, urls) ==
    IF urls = <<>> THEN <<>>
    ELSE (IF Head(urls) \in DOMAIN dd
          THEN << <<dd[Head(urls)].ip, Head(urls)>> >>
          ELSE <<>>) \o Project(dd, Tail(urls))

\* --------------------------------------------------------- getDomainData
\* faulty variant: the age is taken from lastUpdated
CacheHit_OnLastUpdated(existingData, t) ==
    /\ existingData # None
    /\ t - existingData[1].lastUpdated < DOMAIN_CACHE_TTL_MS

\* cacheAge < DOMAIN_CACHE_TTL_MS for an existing record
CacheHit(existingData, t) ==
    /\ existingData # None
    /\ t - existingData[1].lastChecked < DOMAIN_CACHE_TTL_MS

\* faulty variant: a failed resolution answers not-found
FailedResolution_Null(existingData) == None

\* if (!ip) return existingData || null
FailedResolution(existingData) == existingData

\* faulty variant: every successful resolution counts as a change
ResolvedRecord_AlwaysNew(existingData, i, t) == DomainData(i, t, t)

\* The record getDomainData writes and returns after a successful resolution.
ResolvedRecord(existingData, i, t) ==
    IF existingData # None /\ existingData[1].ip = i
    THEN [existingData[1] EXCEPT !.lastChecked = t]
    ELSE DomainData(i, t, t)

\* newKvData after the assignment of the record and of lastUpdated
NewKvData(snap, d, rec, t) ==
    LET base == IF snap # None THEN snap[1] ELSE KVData(EmptyDomainData, t)
    IN  KVData(SetKey(base.domain_data, d, rec), t)

\* -------------------------------------------------------- resetHostsData
\* faulty variant: the delete is lost
Deleted_Kept(snap) == snap

\* the key "domain_data" after await delete("domain_data")
Deleted(snap) == None

\* ------------------------------------------------------------------- Init
InitService ==
    /\ now = 0
    /\ kv = None
    /\ pc = [p \in Procs |-> "idle"]
    /\ op = [p \in Procs |-> "none"]
    /\ domain = [p \in Procs |-> "none"]
    /\ kvData = [p \in Procs |-> None]
    /\ ip = [p \in Procs |-> NoIP]
    /\ newEntries = [p \in Procs |-> <<>>]
    /\ currentTime = [p \in Procs |-> 0]
    /\ result = [p \in Procs |-> None]
    /\ path = [p \in Procs |-> "none"]
    /\ afterReset = [p \in Procs |-> FALSE]
    /\ overwritten = [p \in Procs |-> FALSE]
    /\ httpReq = None
    /\ httpResp = None
    /\ rlPc = [p \in Procs |-> "idle"]
    /\ rlHeader = [p \in Procs |-> None]
    /\ rlWindowStart = [p \in Procs |-> 0]
    /\ rlCurrent = [p \in Procs |-> 0]
    /\ rlNth = [p \in Procs |-> 0]
    /\ rlResp = [p \in Procs |-> None]
    /\ counters = [k \in {} |-> 0]
    /\ issued = [k \in {} |-> 0]
    /\ rlAdmitted = [k \in {} |-> 0]

\* No normalizeIP evaluation is under way.
NormIdle ==
    /\ normIn = <<"unknown">>
    /\ normOut = None
    /\ normTwice = None

\* No fetchIPFromIPAddress call has been made.
DnsIdle ==
    /\ dnsPc = "idle"
    /\ dnsDomain = "none"
    /\ dnsProvider = "none"
    /\ dnsRetries = 0
    /\ dnsDelay = 0
    /\ dnsRequests = 0
    /\ dnsSlept = <<>>
    /\ dnsLast = None
    /\ dnsResult = None

\* No fetchLatestHostsData run modelled call by call has started.
FbIdle ==
    /\ fbPc = "idle"
    /\ fbI = 0
    /\ fbPending = {}
    /\ fbAnswer = [d \in {} |-> NoIP]
    /\ fbEntries = <<>>

AuxIdle == NormIdle /\ DnsIdle /\ FbIdle

\* Every configured domain resolves, to any of the addresses.
InitSeq ==
    /\ InitService
    /\ AuxIdle
    /\ resolver = [d \in Domains |-> IPs]

\* Only the first configured domain resolves.
Init ==
    /\ InitService
    /\ AuxIdle
    /\ resolver = [d \in Domains |-> IF d = GITHUB_URLS[1] THEN IPs ELSE {}]

\* A handler is free to start a call.
Free(p) == pc[p] \in {"idle", "done"}

\* Entering the exported function o.
Enter(p, o) ==
    /\ Free(p)
    /\ op' = [op EXCEPT ![p] = o]
    /\ afterReset' = [afterReset EXCEPT ![p] = (op[p] = "resetHostsData")]

\* The handler is suspended at await point at, with these locals.
Await(p, at, d, snap, i, entries, t) ==
    /\ pc' = [pc EXCEPT ![p] = at]
    /\ domain' = [domain EXCEPT ![p] = d]
    /\ kvData' = [kvData EXCEPT ![p] = snap]
    /\ ip' = [ip EXCEPT ![p] = i]
    /\ newEntries' = [newEntries EXCEPT ![p] = entries]
    /\ currentTime' = [currentTime EXCEPT ![p] = t]
    /\ result' = [result EXCEPT ![p] = None]
    /\ path' = [path EXCEPT ![p] = "none"]
    /\ UNCHANGED <<httpVars, rlVars, auxVars>>

\* The function returns v on branch b; its locals are gone (the argument
\* is kept as part of the record of the call).
Return(p, d, v, b) ==
    /\ pc' = [pc EXCEPT ![p] = "done"]
    /\ path' = [path EXCEPT ![p] = b]
    /\ domain' = [domain EXCEPT ![p] = d]
    /\ kvData' = [kvData EXCEPT ![p] = None]
    /\ ip' = [ip EXCEPT ![p] = NoIP]
    /\ newEntries' = [newEntries EXCEPT ![p] = <<>>]
    /\ currentTime' = [currentTime EXCEPT ![p] = 0]
    /\ result' = [result EXCEPT ![p] = v]
    /\ UNCHANGED <<httpVars, rlVars, auxVars>>

\* Handlers that hold a snapshot they have read and not yet written back.
Holding(q) == pc[q] \in {"gd_dns", "gd_put", "up_put"}

\* history: p reads the snapshot
NoteRead(p) == overwritten' = [overwritten EXCEPT ![p] = FALSE]

\* history: p puts or deletes the snapshot
NoteWrite(p) ==
    overwritten' = [q \in Procs |-> q # p /\ Holding(q)]

\* ------------------------------------------------- getDomainData actions
\* await get("domain_data"), the lookup and the TTL check
GdGet(p, d) ==
    /\ Enter(p, "getDomainData")
    /\ IF CacheHit(Lookup(kv, d), now)
       THEN Return(p, d, Lookup(kv, d), "hit")
       ELSE Await(p, "gd_dns", d, kv, NoIP, <<>>, 0)
    /\ NoteRead(p)
    /\ UNCHANGED <<now, kv, resolver>>

\* await fetchIPFromIPAddress(domain), then the code up to the put
GdDns(p) ==
    /\ pc[p] = "gd_dns"
    /\ \E i \in resolver[domain[p]] \cup {NoIP} :
        IF i = NoIP
        THEN /\ Return(p, domain[p],
                    FailedResolution(Lookup(kvData[p], domain[p])), "failed")
             /\ overwritten' = [overwritten EXCEPT ![p] = FALSE]
        ELSE /\ Await(p, "gd_put", domain[p],
                    Some(NewKvData(kvData[p], domain[p],
                        ResolvedRecord(Lookup(kvData[p], domain[p]), i, now),
                        now)),
                    i, <<>>, 0)
             /\ UNCHANGED overwritten
    /\ UNCHANGED <<now, kv, op, afterReset, resolver>>

\* await put("domain_data", JSON.stringify(newKvData)), then return
GdPut(p) ==
    /\ pc[p] = "gd_put"
    /\ kv' = kvData[p]
    /\ Return(p, domain[p], Lookup(kvData[p], domain[p]), "resolved")
    /\ NoteWrite(p)
    /\ UNCHANGED <<now, op, afterReset, resolver>>

\* --------------------------------------------------- getHostsData actions
\* await get("domain_data") and the staleness test
GhGet(p) ==
    /\ Enter(p, "getHostsData")
    /\ IF IsStale(kv, now)
       THEN Await(p, "fetch", "none", None, NoIP, <<>>, 0)
       ELSE Return(p, "none", Project(kv[1].domain_data, GITHUB_URLS), "fresh")
    /\ NoteRead(p)
    /\ UNCHANGED <<now, kv, resolver>>

\* ------------------------------------------------- resetHostsData actions
\* await delete("domain_data")
RsDelete(p) ==
    /\ Enter(p, "resetHostsData")
    /\ kv' = Deleted(kv)
    /\ Await(p, "fetch", "none", None, NoIP, <<>>, 0)
    /\ NoteWrite(p)
    /\ UNCHANGED <<now, resolver>>

\* ------------------------- shared by getHostsData and resetHostsData
\* await fetchLatestHostsData(), then the call of updateHostsData up to its
\* get: const currentTime = new Date().toISOString()
Fetch(p) ==
    /\ pc[p] = "fetch"
    /\ \E answer \in ResolverAnswers :
        Await(p, "up_get", "none", None, NoIP, fetchLatestHostsData(answer), now)
    /\ UNCHANGED <<now, kv, op, afterReset, overwritten, resolver>>

\* updateHostsData: await get("domain_data") and the merge of newEntries
UpGet(p) ==
    /\ pc[p] = "up_get"
    /\ Await(p, "up_put", "none",
           Some(UpdatedSnapshot(kv, Some(newEntries[p]), currentTime[p])),
           NoIP, newEntries[p], currentTime[p])
    /\ NoteRead(p)
    /\ UNCHANGED <<now, kv, op, afterReset, resolver>>

\* updateHostsData: await put("domain_data", ...); the caller returns newEntries
UpPut(p) ==
    /\ pc[p] = "up_put"
    /\ kv' = kvData[p]
    /\ Return(p, "none", newEntries[p], "refreshed")
    /\ NoteWrite(p)
    /\ UNCHANGED <<now, op, afterReset, resolver>>

\* ------------------------------------------------------------------ clock
Advance(maxTicks) ==
    /\ now < maxTicks * TickMs
    /\ now' = now + TickMs
    /\ UNCHANGED <<kv, op, locals, afterReset, overwritten, resolver>>
    /\ UNCHANGED <<httpVars, rlVars, auxVars>>

Tick == Advance(MaxTicks)

TickOverlap == Advance(MaxTicksOverlap)

Step(p) ==
    \/ \E d \in Domains : GdGet(p, d)
    \/ GdDns(p)
    \/ GdPut(p)
    \/ GhGet(p)
    \/ RsDelete(p)
    \/ Fetch(p)
    \/ UpGet(p)
    \/ UpPut(p)

\* Two handlers whose calls overlap in every way.
Next == (\E p \in Procs : Step(p)) \/ TickOverlap

Spec == Init /\ [][Next]_vars

\* One handler: calls run one after another.
NextSeq == Step(1) \/ Tick

SpecSeq == InitSeq /\ [][NextSeq]_vars

\* ================================================== HTTP (src/src/index.ts)
\* The paths requested: "/" followed by the segment.
Segments == {"", "hosts.json", "hosts", "reset", "github.com",
             "api.github.com", "example.com"}

\* Accept headers, as the media ranges they list ({}: no header).
Accepts == {{}, {"text/html", "application/xhtml+xml"}, {"application/json"}}

\* c.env.API_KEY
API_KEY == "secret"

Requests ==
    [method : {"GET", "POST"}, segment : Segments, accept : Accepts,
     key : {"", "wrong", API_KEY}]

\* The handlers in the order of their registration: app.use / app.get /
\* app.post.
Routes == <<
    [method |-> "ALL",  pattern |-> "*",           handler |-> "maintenance"],
    [method |-> "GET",  pattern |-> "/",           handler |-> "root"],
    [method |-> "GET",  pattern |-> "/hosts.json", handler |-> "hosts.json"],
    [method |-> "GET",  pattern |-> "/hosts",      handler |-> "hosts"],
    [method |-> "POST", pattern |-> "/reset",      handler |-> "reset"],
    [method |-> "GET",  pattern |-> "/:domain",    handler |-> "domain"] >>

\* The router: route r matches request req.
Matches(r, req) ==
    /\ r.method \in {"ALL", req.method}
    /\ \/ r.pattern = "*"
       \/ r.pattern = "/" /\ req.segment = ""
       \/ r.pattern = "/hosts.json" /\ req.segment = "hosts.json"
       \/ r.pattern = "/hosts" /\ req.segment = "hosts"
       \/ r.pattern = "/reset" /\ req.segment = "reset"
       \/ r.pattern = "/:domain" /\ req.segment # ""

\* The handler that runs first for req: the first registered match.
FirstHandler(req) ==
    LET matching == {i \in 1..Len(Routes) : Matches(Routes[i], req)}
    IN  IF matching = {} THEN "notFound"
        ELSE Routes[CHOOSE i \in matching : \A j \in matching : i <= j].handler

\* A request arrives (the previous one has been answered).
Receive(req) ==
    /\ httpReq = None \/ httpResp # None
    /\ httpReq' = Some(req)
    /\ httpResp' = None
    /\ UNCHANGED <<now, serviceVars, rlVars, auxVars>>

\* app.use("*", ...): answers 503 and does not call next, so that no
\* handler registered after it runs.
Maintenance ==
    /\ httpReq # None /\ httpResp = None
    /\ FirstHandler(httpReq[1]) = "maintenance"
    /\ httpResp' = Some([status |-> 503,
                         type |-> IF "text/html" \in httpReq[1].accept
                                  THEN "html" ELSE "json"])
    /\ UNCHANGED <<now, serviceVars, rlVars, auxVars, httpReq>>

NextHttp == (\E req \in Requests : Receive(req)) \/ Maintenance

SpecHttp == Init /\ [][NextHttp]_vars

\* ============================================ a failing key-value store
\* An await on the store may reject instead of completing.  Each action is
\* the rejected operation together with the code that runs after it: the
\* catch block that receives the exception, or the return of the exception
\* to the caller when no try encloses the await.

\* getDomainData: get("domain_data") at line 223 rejects; the catch at lines
\* 278-281 returns null
GdGetFails(p, d) ==
    /\ Enter(p, "getDomainData")
    /\ Return(p, d, None, "get_failed")
    /\ NoteRead(p)
    /\ UNCHANGED <<now, kv, resolver>>

\* getDomainData: put at line 258 or 275 rejects; the catch returns null
GdPutFails(p) ==
    /\ pc[p] = "gd_put"
    /\ Return(p, domain[p], None, "put_failed")
    /\ overwritten' = [overwritten EXCEPT ![p] = FALSE]
    /\ UNCHANGED <<now, kv, op, afterReset, resolver>>

\* getHostsData: get("domain_data") at line 130 rejects; the await is not
\* inside a try, the call ends with the exception
GhGetFails(p) ==
    /\ Enter(p, "getHostsData")
    /\ Return(p, "none", None, "thrown")
    /\ NoteRead(p)
    /\ UNCHANGED <<now, kv, resolver>>

\* resetHostsData: delete("domain_data") at line 288 rejects; the catch at
\* lines 299-302 returns []
RsDeleteFails(p) ==
    /\ Enter(p, "resetHostsData")
    /\ Return(p, "none", <<>>, "delete_failed")
    /\ NoteRead(p)
    /\ UNCHANGED <<now, kv, resolver>>

\* updateHostsData: get at line 167 or put at line 194 rejects; the catch at
\* lines 195-197 logs, and the caller returns newEntries
UpFails(p) ==
    /\ pc[p] \in {"up_get", "up_put"}
    /\ Return(p, "none", newEntries[p], "store_failed")
    /\ overwritten' = [overwritten EXCEPT ![p] = FALSE]
    /\ UNCHANGED <<now, kv, op, afterReset, resolver>>

FailStep(p) ==
    \/ \E d \in Domains : GdGetFails(p, d)
    \/ GdPutFails(p)
    \/ GhGetFails(p)
    \/ RsDeleteFails(p)
    \/ UpFails(p)

\* Calls one after another, on a store whose operations may fail.
NextFail == Step(1) \/ FailStep(1) \/ Tick

SpecFail == InitSeq /\ [][NextFail]_vars

\* ================================= rateLimit (src/src/middleware/rate-limit.ts)
\* rateLimit({ limit: 5, windowMs: 60_000 })
limit == 5
windowMs == 60000

RlTickMs == windowMs \div 2 + 500

\* An address is represented by ip.split(":"): one part for an IPv4 address
\* (no colon), the groups for an IPv6 address ("" at a "::").
\* Two addresses of one /64; a request may also carry no header.
RlHeaders == { <<"2001", "db8", "0", "1", "", "1">>,
               <<"2001", "db8", "0", "1", "", "2">> }

\* parts.indexOf(""), 1-based; 0 when there is none
IndexOfEmpty(parts) ==
    IF \E i \in 1..Len(parts) : parts[i] = ""
    THEN CHOOSE i \in 1..Len(parts) :
             parts[i] = "" /\ \A j \in 1..(i - 1) : parts[j] # ""
    ELSE 0

\* parts.splice(index, 1, ...fill), index 1-based
Splice(parts, index, fill) ==
    SubSeq(parts, 1, index - 1) \o fill \o SubSeq(parts, index + 1, Len(parts))

\* normalizeIP, on and to the split(":") form
normalizeIP(parts) ==
    IF Len(parts) = 1 THEN parts
    ELSE LET missing ==
                 8 - Cardinality({i \in 1..Len(parts) : parts[i] # ""})
             expanded ==
                 IF Len(parts) < 8 /\ IndexOfEmpty(parts) # 0
                 THEN Splice(parts, IndexOfEmpty(parts),
                             [i \in 1..missing |-> "0000"])
                 ELSE parts
         IN  SubSeq(expanded, 1, IF Len(expanded) < 4 THEN Len(expanded) ELSE 4)

\* getWindowStart: Math.floor(Date.now() / windowMs) * windowMs
getWindowStart(t) == (t \div windowMs) * windowMs

\* Math.ceil(a / b), b > 0
Ceil(a, b) == -((-a) \div b)

\* `ratelimit:${normalizedIP}:${windowStart}`
RlKey(header, windowStart) ==
    <<normalizeIP(IF header = None THEN <<"unknown">> ELSE header[1]),
      windowStart>>

\* parseInt((await kv.get(key)) || "0", 10)
CounterAt(key) == IF key \in DOMAIN counters THEN counters[key] ELSE 0

IssuedAt(key) == IF key \in DOMAIN issued THEN issued[key] ELSE 0

AdmittedAt(key) == IF key \in DOMAIN rlAdmitted THEN rlAdmitted[key] ELSE 0

\* faulty variant: the limit is reached one request late
LimitReached_Late(current) == current > limit

\* if (current >= limit)
LimitReached(current) == current >= limit

\* Math.max(0, limit - current - 1)
Remaining(current) ==
    IF limit - current - 1 > 0 THEN limit - current - 1 ELSE 0

\* The outcome of a request: passed to next() or answered 429, with the
\* RateLimit-* headers and, on 429, Retry-After.
RlOutcome(admitted, current, windowStart, t) ==
    [admitted |-> admitted,
     status |-> IF admitted THEN 0 ELSE 429,
     limitHeader |-> limit,
     remaining |-> Remaining(current),
     reset |-> Ceil(windowStart + windowMs, 1000),
     retryAfter |-> IF admitted THEN None
                    ELSE Some(Ceil(windowStart + windowMs - t, 1000))]

\* lines 48-51: the header, the window start, the key; then await kv.get
RlStart(p, header) ==
    /\ rlPc[p] \in {"idle", "done"}
    /\ LET key == RlKey(header, getWindowStart(now))
       IN  /\ IssuedAt(key) < MaxRequests
           /\ issued' = SetKey(issued, key, IssuedAt(key) + 1)
           /\ rlNth' = [rlNth EXCEPT ![p] = IssuedAt(key) + 1]
    /\ rlPc' = [rlPc EXCEPT ![p] = "get"]
    /\ rlHeader' = [rlHeader EXCEPT ![p] = header]
    /\ rlWindowStart' = [rlWindowStart EXCEPT ![p] = getWindowStart(now)]
    /\ rlCurrent' = [rlCurrent EXCEPT ![p] = 0]
    /\ rlResp' = [rlResp EXCEPT ![p] = None]
    /\ UNCHANGED <<now, serviceVars, httpVars, auxVars, counters, rlAdmitted>>

\* lines 54-71: the counter is read, the headers are set, 429 if the limit
\* is reached
RlGet(p) ==
    /\ rlPc[p] = "get"
    /\ LET current == CounterAt(RlKey(rlHeader[p], rlWindowStart[p]))
       IN  IF LimitReached(current)
           THEN /\ rlPc' = [rlPc EXCEPT ![p] = "done"]
                /\ rlResp' = [rlResp EXCEPT ![p] =
                       Some(RlOutcome(FALSE, current, rlWindowStart[p], now))]
                /\ UNCHANGED rlCurrent
           ELSE /\ rlPc' = [rlPc EXCEPT ![p] = "put"]
                /\ rlCurrent' = [rlCurrent EXCEPT ![p] = current]
                /\ UNCHANGED rlResp
    /\ UNCHANGED <<now, serviceVars, httpVars, auxVars, rlHeader,
                   rlWindowStart, rlNth, counters, issued, rlAdmitted>>

\* lines 74-77: await kv.put(key, String(current + 1)), then next()
RlPut(p) ==
    /\ rlPc[p] = "put"
    /\ counters' = SetKey(counters, RlKey(rlHeader[p], rlWindowStart[p]),
                          rlCurrent[p] + 1)
    /\ rlPc' = [rlPc EXCEPT ![p] = "done"]
    /\ rlResp' = [rlResp EXCEPT ![p] =
           Some(RlOutcome(TRUE, rlCurrent[p], rlWindowStart[p], now))]
    /\ rlCurrent' = [rlCurrent EXCEPT ![p] = 0]
    /\ rlAdmitted' = SetKey(rlAdmitted, RlKey(rlHeader[p], rlWindowStart[p]),
                            AdmittedAt(RlKey(rlHeader[p], rlWindowStart[p])) + 1)
    /\ UNCHANGED <<now, serviceVars, httpVars, auxVars, rlHeader,
                   rlWindowStart, rlNth, issued>>

AdvanceRl ==
    /\ now < MaxRlTicks * RlTickMs
    /\ now' = now + RlTickMs
    /\ UNCHANGED <<serviceVars, httpVars, rlVars, auxVars>>

RlStep(p) ==
    \/ \E header \in {None} \cup {Some(h) : h \in RlHeaders} : RlStart(p, header)
    \/ RlGet(p)
    \/ RlPut(p)

\* One client connection: requests are issued one after another.
NextRl == RlStep(1) \/ AdvanceRl

SpecRl == Init /\ [][NextRl]_vars

\* Requests of the addresses of one /64 within one window; two of them may
\* be inside the middleware at the same time.
RlStepSameKey(p) ==
    \/ \E h \in RlHeaders : RlStart(p, Some(h))
    \/ RlGet(p)
    \/ RlPut(p)

NextRlOverlap == \E p \in Procs : RlStepSameKey(p)

SpecRlOverlap == Init /\ [][NextRlOverlap]_vars

\* ============================ normalizeIP (rate-limit.ts), on IPv6 input
\* The groups of the addresses normalizeIP is applied to ("" at a "::").
IPv6Groups == {"", "a", "b"}

\* parts is ip.split(":") of an IPv6 address in text form: eight groups, or
\* fewer with one "::" (inside: one empty part; at the start or the end: two
\* empty parts; alone: three).
IsIPv6(parts) ==
    LET n == Len(parts)
        e == {i \in 1..n : parts[i] = ""}
    IN  \/ e = {} /\ n = 8
        \/ n <= 8 /\ \E i \in 2..(n - 1) : e = {i}
        \/ n \in 3..9 /\ e = {1, 2}
        \/ n \in 3..9 /\ e = {n - 1, n}
        \/ n = 3 /\ e = {1, 2, 3}

IPv6Inputs ==
    {parts \in UNION {[1..n -> IPv6Groups] : n \in 3..9} : IsIPv6(parts)}

\* normalizeIP is about to be applied to one of the IPv6 inputs.
InitNorm ==
    /\ InitService
    /\ resolver = [d \in Domains |-> IPs]
    /\ normIn \in IPv6Inputs
    /\ normOut = None
    /\ normTwice = None
    /\ DnsIdle
    /\ FbIdle

\* normalizeIP(ip)
NormalizeOnce ==
    /\ normOut = None
    /\ normOut' = Some(normalizeIP(normIn))
    /\ UNCHANGED <<now, serviceVars, httpVars, rlVars, dnsVars, fbVars, normIn,
                   normTwice>>

\* normalizeIP(normalizeIP(ip))
NormalizeAgain ==
    /\ normOut # None
    /\ normTwice = None
    /\ normTwice' = Some(normalizeIP(normOut[1]))
    /\ UNCHANGED <<now, serviceVars, httpVars, rlVars, dnsVars, fbVars, normIn,
                   normOut>>

NextNorm == NormalizeOnce \/ NormalizeAgain

SpecNorm == InitNorm /\ [][NextNorm]_vars

\* ===================================== fetchIPFromIPAddress and retry
\* The DNS-over-HTTPS providers (src/constants.ts, DNS_PROVIDERS): their
\* names, in order.
DNS_PROVIDERS == <<"Cloudflare", "Google">>

\* The optional providerName argument: absent, a listed name, another name.
ProviderNames == {None, Some("Google"), Some("Quad9")}

\* DNS_PROVIDERS.find((p) => p.name === providerName) || DNS_PROVIDERS[0]
SelectProvider(providerName) ==
    IF /\ providerName # None
       /\ \E i \in 1..Len(DNS_PROVIDERS) : DNS_PROVIDERS[i] = providerName[1]
    THEN providerName[1]
    ELSE DNS_PROVIDERS[1]

\* retry(fn, retries = 3, delay = 1000)
DefaultRetries == 3
DefaultDelay == 1000

\* The data field of an answer is represented by data.split("."): the
\* labels of a host name, the groups of an address.
DigitGroups == {"140", "82", "112", "3", "4"}

\* /^\d+\.\d+\.\d+\.\d+$/.test(ip)
IsDottedQuad(data) ==
    Len(data) = 4 /\ \A i \in 1..4 : data[i] \in DigitGroups

\* interface DnsAnswer { type, data }: A records (type 1) and a CNAME
\* record (type 5)
DnsAnswer(type, data) == [type |-> type, data |-> data]

AnswerLists ==
    LET cname == DnsAnswer(5, <<"github", "github", "io">>)
        a3    == DnsAnswer(1, <<"140", "82", "112", "3">>)
        a4    == DnsAnswer(1, <<"140", "82", "112", "4">>)
        short == DnsAnswer(1, <<"140", "82", "112">>)
        name  == DnsAnswer(1, <<"lb", "github", "map", "net">>)
        empty == DnsAnswer(1, <<"">>)
    IN  { <<>>, <<cname>>, <<a3>>, <<cname, a4>>, <<short>>, <<short, a3>>,
          <<name>>, <<empty>> }

\* What a fetch may end with: a rejection (network error), or a response
\* with a status (ok: 2xx) and a body that is JSON or not; the JSON body may
\* lack the Answer field.
NetworkError == [error |-> TRUE, ok |-> FALSE, json |-> FALSE, Answer |-> None]

Responses ==
    {[error |-> FALSE, ok |-> o, json |-> j, Answer |-> a] :
        o \in BOOLEAN, j \in BOOLEAN,
        a \in {None} \cup {Some(l) : l \in AnswerLists}}

\* data.Answer?.find((answer) => answer.type === 1)?.data, undefined as <<>>
FirstARecordData(answer) ==
    IF answer = None \/ \A i \in 1..Len(answer[1]) : answer[1][i].type # 1
    THEN <<>>
    ELSE LET i == CHOOSE i \in 1..Len(answer[1]) :
                      /\ answer[1][i].type = 1
                      /\ \A j \in 1..(i - 1) : answer[1][j].type # 1
         IN  answer[1][i].data

\* lines 72-87, given the response: null (<<>>) when it is not ok, when
\* response.json() throws, or when there is no A record with a dotted-quad
\* data; the data of the first A record otherwise
ParseResponse(response) ==
    IF ~response.ok THEN <<>>
    ELSE IF ~response.json THEN <<>>
    ELSE LET data == FirstARecordData(response.Answer)
         IN  IF data # <<>> /\ data # <<"">> /\ IsDottedQuad(data)
             THEN data ELSE <<>>

\* faulty variant: one more retry
RetriesExhausted_Late(retries) == retries < 0

\* if (retries === 0) throw error
RetriesExhausted(retries) == retries = 0

\* fetchIPFromIPAddress(domain, providerName) up to the first fetch
DnsCall(d, providerName) ==
    /\ dnsPc \in {"idle", "done"}
    /\ dnsPc' = "fetch"
    /\ dnsDomain' = d
    /\ dnsProvider' = SelectProvider(providerName)
    /\ dnsRetries' = DefaultRetries
    /\ dnsDelay' = DefaultDelay
    /\ dnsRequests' = 0
    /\ dnsSlept' = <<>>
    /\ dnsLast' = None
    /\ dnsResult' = None
    /\ UNCHANGED <<now, serviceVars, httpVars, rlVars, normVars, fbVars>>

\* await fn(): the fetch ends.  A rejection is caught by retry, which
\* rethrows it when no retry is left (then the catch at line 83 makes the
\* call return null) and sleeps otherwise; a response is returned to
\* fetchIPFromIPAddress, which returns what it parses from it.
DnsFetch ==
    /\ dnsPc = "fetch"
    /\ dnsRequests' = dnsRequests + 1
    /\ \E outcome \in {NetworkError} \cup Responses :
        /\ dnsLast' = Some(outcome)
        /\ IF outcome.error
           THEN IF RetriesExhausted(dnsRetries)
                THEN dnsPc' = "done" /\ dnsResult' = Some(<<>>)
                ELSE dnsPc' = "sleep" /\ dnsResult' = None
           ELSE dnsPc' = "done" /\ dnsResult' = Some(ParseResponse(outcome))
    /\ UNCHANGED <<dnsDomain, dnsProvider, dnsRetries, dnsDelay, dnsSlept>>
    /\ UNCHANGED <<now, serviceVars, httpVars, rlVars, normVars, fbVars>>

\* await setTimeout(delay), then retry(fn, retries - 1, delay * 2)
DnsSleep ==
    /\ dnsPc = "sleep"
    /\ dnsSlept' = Append(dnsSlept, dnsDelay)
    /\ dnsRetries' = dnsRetries - 1
    /\ dnsDelay' = dnsDelay * 2
    /\ dnsPc' = "fetch"
    /\ UNCHANGED <<dnsDomain, dnsProvider, dnsRequests, dnsLast, dnsResult>>
    /\ UNCHANGED <<now, serviceVars, httpVars, rlVars, normVars, fbVars>>

NextDns ==
    \/ \E d \in Domains, providerName \in ProviderNames :
           DnsCall(d, providerName)
    \/ DnsFetch
    \/ DnsSleep

\* Every fetch ends (with a response or a rejection) and every timer fires.
SpecDns ==
    Init /\ [][NextDns]_vars /\ WF_vars(DnsFetch) /\ WF_vars(DnsSleep)

\* ================================ fetchLatestHostsData, call by call
\* The configured domain list (src/constants.ts, GITHUB_URLS) as one run
\* iterates over it: more domains than one batch holds.
FetchUrls ==
    <<"github.com", "api.github.com", "gist.github.com",
      "raw.githubusercontent.com", "github.githubassets.com",
      "avatars.githubusercontent.com", "codeload.github.com">>

\* faulty variant: the batch is the whole rest of the list
NextBatch_Rest(i) == Slice(FetchUrls, i, Len(FetchUrls))

\* const batch = GITHUB_URLS.slice(i, i + batchSize)
NextBatch(i) == Slice(FetchUrls, i, batchSize)

\* batch.map(async (domain) => ...): the calls of a batch all start at once
Launched(i) == {NextBatch(i)[k] : k \in 1..Len(NextBatch(i))}

\* the run starts: i = 0, the first batch is launched
FbStart ==
    /\ fbPc \in {"idle", "done"}
    /\ fbPc' = "batch"
    /\ fbI' = 0
    /\ fbPending' = Launched(0)
    /\ fbAnswer' = [d \in {} |-> NoIP]
    /\ fbEntries' = <<>>
    /\ UNCHANGED <<now, serviceVars, httpVars, rlVars, normVars, dnsVars>>

\* one fetchIPFromIPAddress call of the batch returns; when it is the last
\* one, Promise.all resolves, the non-null results are pushed in the order
\* of the batch, and the run sleeps or returns
FbResolve(d, i) ==
    /\ fbPc = "batch"
    /\ d \in fbPending
    /\ fbPending' = fbPending \ {d}
    /\ fbAnswer' = SetKey(fbAnswer, d, i)
    /\ IF fbPending' = {}
       THEN /\ fbEntries' = fbEntries \o BatchResults(NextBatch(fbI), fbAnswer')
            /\ fbPc' = IF fbI + batchSize < Len(FetchUrls)
                       THEN "delay" ELSE "done"
       ELSE UNCHANGED <<fbEntries, fbPc>>
    /\ UNCHANGED fbI
    /\ UNCHANGED <<now, serviceVars, httpVars, rlVars, normVars, dnsVars>>

\* await setTimeout(2000), i += batchSize, the next batch is launched
FbDelay ==
    /\ fbPc = "delay"
    /\ fbI' = fbI + batchSize
    /\ fbPending' = fbPending \cup Launched(fbI + batchSize)
    /\ fbPc' = "batch"
    /\ UNCHANGED <<fbAnswer, fbEntries>>
    /\ UNCHANGED <<now, serviceVars, httpVars, rlVars, normVars, dnsVars>>

NextFb ==
    \/ FbStart
    \/ \E d \in Launched(0) \cup Launched(batchSize), i \in IPs \cup {NoIP} :
           FbResolve(d, i)
    \/ FbDelay

SpecFb == Init /\ [][NextFb]_vars

\* ======================================================= properties
\* The record of domain d in snapshot snap, if any.
Has(snap, d) == snap # None /\ d \in DOMAIN snap[1].domain_data

\* Handler p took the step (no other handler changes these).
Acted(p) ==
    <<pc[p], op[p], domain[p], kvData[p], ip[p], newEntries[p],
      currentTime[p], result[p], path[p]>>'
  # <<pc[p], op[p], domain[p], kvData[p], ip[p], newEntries[p],
      currentTime[p], result[p], path[p]>>

\* Handler p enters exported function o in this step.
Calls(p, o) == Free(p) /\ Acted(p) /\ op'[p] = o

\* ---- C1
\* C1: in every reachable state every record of the stored snapshot has
\* lastUpdated <= lastChecked.
C1_LastUpdatedLeLastChecked ==
    kv # None =>
        \A d \in DOMAIN kv[1].domain_data :
            kv[1].domain_data[d].lastUpdated <= kv[1].domain_data[d].lastChecked

\* ---- C2
\* C2: a getDomainData(d) call that finds a stored record of d with
\* now - lastChecked < 1 hour returns at once (no resolver call, no put)
\* with exactly the stored record, and leaves the store as it is.
C2_FreshLookupIsCacheHit ==
    [][\A p \in Procs, d \in Domains :
        ( /\ Calls(p, "getDomainData")
          /\ domain'[p] = d
          /\ Has(kv, d)
          /\ now - kv[1].domain_data[d].lastChecked < 60 * 60 * 1000 )
        => ( /\ pc'[p] = "done"
             /\ ip'[p] = NoIP
             /\ result'[p] = Some(kv[1].domain_data[d])
             /\ kv' = kv )]_vars

\* a lookup answered from the cache with a record checked earlier, while a
\* previous lookup of the same handler had to resolve it
C2_Witness ==
    \E p \in Procs :
        /\ pc[p] = "done" /\ op[p] = "getDomainData" /\ path[p] = "hit"
        /\ result[p] # None
        /\ result[p] = Lookup(kv, domain[p])
        /\ result[p][1].lastChecked < now
        /\ now - result[p][1].lastChecked < DOMAIN_CACHE_TTL_MS

C4_FailedResolutionKeepsStore ==
    [][\A p \in Procs :
        ( pc[p] = "gd_dns" /\ Acted(p) /\ ip'[p] = NoIP )
        => ( /\ pc'[p] = "done"
             /\ result'[p] = Lookup(kvData[p], domain[p])
             /\ kv' = kv )]_vars

\* a failed resolution answered with the stale record
C4_Witness ==
    \E p \in Procs :
        /\ pc[p] = "done" /\ op[p] = "getDomainData" /\ path[p] = "failed"
        /\ result[p] # None
        /\ result[p] = Lookup(kv, domain[p])
        /\ now - result[p][1].lastChecked >= DOMAIN_CACHE_TTL_MS

\* ---- C5
\* res lists the (ip, domain) pairs of the records of dd in the order of
\* GITHUB_URLS, configured domains without a record skipped.
IsOrderedProjection(res, dd) ==
    LET present == {i \in 1..Len(GITHUB_URLS) : GITHUB_URLS[i] \in DOMAIN dd}
    IN  /\ Len(res) = Cardinality(present)
        /\ \A i \in present :
               res[Cardinality({j \in present : j <= i})]
                   = <<dd[GITHUB_URLS[i]].ip, GITHUB_URLS[i]>>

\* C5: getHostsData refreshes exactly when the snapshot was never written,
\* or now - snapshot.lastUpdated > 1 hour, or it holds no record; otherwise
\* it returns at once (no resolver call, no put) the (ip, domain) pairs of
\* the stored records in configured order, and leaves the store as it is.
C5_BulkFetchStaleness ==
    [][\A p \in Procs :
        Calls(p, "getHostsData")
        => LET stale == \/ kv = None
                        \/ now - kv[1].lastUpdated > 60 * 60 * 1000
                        \/ DOMAIN kv[1].domain_data = {}
           IN  /\ stale => pc'[p] = "fetch"
               /\ ~stale => /\ pc'[p] = "done"
                            /\ kv' = kv
                            /\ IsOrderedProjection(result'[p],
                                                   kv[1].domain_data) ]_vars

\* a bulk fetch answered from a snapshot written exactly one hour ago that
\* lacks the first configured domain
C5_Witness ==
    \E p \in Procs :
        /\ pc[p] = "done" /\ op[p] = "getHostsData" /\ path[p] = "fresh"
        /\ kv # None
        /\ now - kv[1].lastUpdated = DOMAIN_CACHE_TTL_MS
        /\ Len(result[p]) = 1
        /\ result[p][1][2] = GITHUB_URLS[2]

\* ---- C6
\* The domains of a list of (ip, domain) pairs.
EntryDomains(entries) == {entries[i][2] : i \in 1..Len(entries)}

\* C6 as claimed: after a refreshing getHostsData the stored snapshot holds
\* exactly the domains of the refresh result, each with
\* lastUpdated = lastChecked = the time of the refresh.
C6_RefreshIsFullRebuild ==
    \A p \in Procs :
        ( pc[p] = "done" /\ op[p] = "getHostsData" /\ path[p] = "refreshed" )
        => /\ kv # None
           /\ DOMAIN kv[1].domain_data = EntryDomains(result[p])
           /\ \A d \in DOMAIN kv[1].domain_data :
                 /\ kv[1].domain_data[d].lastUpdated = kv[1].lastUpdated
                 /\ kv[1].domain_data[d].lastChecked = kv[1].lastUpdated

\* C6 (amended): a refreshing getHostsData merges the refresh result into the
\* snapshot updateHostsData reads: a domain of the result gets the resolved
\* ip and lastChecked = currentTime, and lastUpdated = currentTime only if it
\* had no record or another ip (kept otherwise); the record of a domain that
\* is absent from the result is kept as read; the merge is what is put, and
\* the refresh result is what is returned.
C6_RefreshMerges ==
    [][\A p \in Procs :
        op[p] = "getHostsData" =>
        /\ ( pc[p] = "up_get" /\ Acted(p) )
           => LET old == IF kv = None THEN EmptyDomainData
                         ELSE kv[1].domain_data
                  new == kvData'[p][1].domain_data
                  t   == currentTime[p]
                  res == newEntries[p]
              IN  /\ pc'[p] = "up_put"
                  /\ kvData'[p][1].lastUpdated = t
                  /\ DOMAIN new = (DOMAIN old) \cup EntryDomains(res)
                  /\ \A i \in 1..Len(res) :
                        LET d == res[i][2] IN
                        /\ new[d].ip = res[i][1]
                        /\ new[d].lastChecked = t
                        /\ new[d].lastUpdated =
                              IF d \in DOMAIN old /\ old[d].ip = res[i][1]
                              THEN old[d].lastUpdated ELSE t
                  /\ \A d \in (DOMAIN old) \ EntryDomains(res) :
                        new[d] = old[d]
        /\ ( pc[p] = "up_put" /\ Acted(p) )
           => /\ pc'[p] = "done"
              /\ kv' = kvData[p]
              /\ result'[p] = newEntries[p] ]_vars

\* a refresh that re-resolved one domain to the ip it had and did not
\* resolve another domain that has a record
C6_Witness ==
    \E p \in Procs :
        /\ pc[p] = "done" /\ op[p] = "getHostsData" /\ path[p] = "refreshed"
        /\ kv # None
        /\ \E d \in EntryDomains(result[p]) :
              /\ kv[1].domain_data[d].lastUpdated < kv[1].lastUpdated
              /\ kv[1].domain_data[d].lastChecked = kv[1].lastUpdated
        /\ \E d \in DOMAIN kv[1].domain_data :
              /\ d \notin EntryDomains(result[p])
              /\ kv[1].domain_data[d].lastChecked < kv[1].lastUpdated

\* ---- C7
\* C7: calls running one after another: when resetHostsData has returned,
\* the snapshot exists and each of its records has lastUpdated =
\* lastChecked; and the bulk fetch that follows the reset returns only
\* configured domains.
C7_ResetThenBulkFetch ==
    \A p \in Procs :
        /\ ( pc[p] = "done" /\ op[p] = "resetHostsData" )
           => /\ kv # None
              /\ DOMAIN kv[1].domain_data = EntryDomains(result[p])
              /\ \A d \in DOMAIN kv[1].domain_data :
                    kv[1].domain_data[d].lastUpdated
                        = kv[1].domain_data[d].lastChecked
        /\ ( pc[p] = "done" /\ op[p] = "getHostsData" /\ afterReset[p] )
           => EntryDomains(result[p]) \subseteq Domains

\* a bulk fetch right after a reset, answered from the snapshot the reset
\* built
C7_Witness ==
    \E p \in Procs :
        /\ pc[p] = "done" /\ op[p] = "getHostsData" /\ afterReset[p]
        /\ path[p] = "fresh"
        /\ Len(result[p]) = Len(GITHUB_URLS)
        /\ \A d \in DOMAIN kv[1].domain_data :
              kv[1].domain_data[d].lastUpdated
                  = kv[1].domain_data[d].lastChecked

C9_UnlistedDomainIs400 ==
    ( /\ httpReq # None /\ httpResp # None
      /\ httpReq[1].method = "GET"
      /\ httpReq[1].segment \notin Domains \cup {"", "hosts.json", "hosts"} )
    => /\ httpResp[1].status = 400
       /\ \A p \in Procs : pc[p] = "idle"

\* ---- C10
\* C10: requests of one normalized address issued one after another: the
\* n-th request of a window is passed on with RateLimit-Remaining =
\* limit - n and leaves the counter at n when n <= limit, and is answered
\* 429 with the counter left at limit when n > limit.
C10_FirstLimitRequestsAdmitted ==
    \A p \in Procs :
        ( rlPc[p] = "done" /\ rlResp[p] # None )
        => LET n == rlNth[p]
               r == rlResp[p][1]
               stored == CounterAt(RlKey(rlHeader[p], rlWindowStart[p]))
           IN  /\ n <= limit => /\ r.admitted
                                /\ r.remaining = limit - n
                                /\ stored = n
               /\ n > limit => /\ ~r.admitted
                               /\ r.status = 429
                               /\ r.retryAfter # None
                               /\ stored = limit

\* the request after the limit-th of a window, sent from the second address
\* of the /64, is answered 429
C10_Witness ==
    \E p \in Procs :
        /\ rlPc[p] = "done" /\ rlResp[p] # None
        /\ rlNth[p] = limit + 1
        /\ rlHeader[p] = Some(<<"2001", "db8", "0", "1", "", "2">>)
        /\ rlResp[p][1].status = 429
        /\ CounterAt(RlKey(rlHeader[p], rlWindowStart[p])) = limit

\* ---- C11
\* C11: every 429 answer of the rate limiter carries a Retry-After value v
\* with 0 <= v <= windowMs / 1000, whatever the clock shows when the
\* window start is computed (before the counter is read) and when
\* Retry-After is computed (after it).
C11_RetryAfterInRange ==
    \A p \in Procs :
        ( rlPc[p] = "done" /\ rlResp[p] # None /\ rlResp[p][1].status = 429 )
        => /\ rlResp[p][1].retryAfter # None
           /\ 0 <= rlResp[p][1].retryAfter[1]
           /\ rlResp[p][1].retryAfter[1] <= windowMs \div 1000

\* ---- C12
NonEmpty(group) == group # ""

\* The eight groups of an IPv6 address given as ip.split(":"): the "::"
\* replaced by as many "0000" groups as are missing.
Expanded(parts) ==
    LET i == IndexOfEmpty(parts)
        groups == SelectSeq(parts, NonEmpty)
    IN  IF i = 0 THEN parts
        ELSE SelectSeq(SubSeq(parts, 1, i - 1), NonEmpty)
             \o [k \in 1..(8 - Len(groups)) |-> "0000"]
             \o SelectSeq(SubSeq(parts, i + 1, Len(parts)), NonEmpty)

\* C12: for every IPv6 input x, normalizeIP(normalizeIP(x)) =
\* normalizeIP(x), and normalizeIP(x) is the first four groups of the
\* "::"-expanded x.
C12_NormalizeIdempotent ==
    /\ normOut # None => normOut[1] = SubSeq(Expanded(normIn), 1, 4)
    /\ normTwice # None => normTwice = normOut

\* ---- C13
\* C13: a failing get or put of the store is never propagated to the caller
\* of getHostsData, getDomainData or resetHostsData, and a failed read is
\* followed by a resolution: no call ends with an exception, and no
\* getDomainData call whose get failed returns not-found without resolving.
C13_StoreFailureNotPropagated ==
    \A p \in Procs :
        pc[p] = "done" => path[p] \notin {"thrown", "get_failed"}

\* ---- C14
\* C14: a non-2xx response of the provider is retried like a network error:
\* a call whose latest fetch ended with a non-2xx response has made 4
\* requests, after delays of 1 s, 2 s and 4 s, and returns null.
C14_Non2xxIsRetried ==
    ( /\ dnsPc = "done"
      /\ dnsLast # None /\ ~dnsLast[1].error /\ ~dnsLast[1].ok )
    => /\ dnsRequests = 4
       /\ dnsSlept = <<1000, 2000, 4000>>
       /\ dnsResult = Some(<<>>)

\* ---- C15
\* C15: fetchIPFromIPAddress terminates and does not throw: whatever the
\* fetches end with, the call makes at most 4 requests, sleeps 1 s, 2 s and
\* 4 s between them, and returns a dotted-quad address or null.
C15_ResolverTerminates ==
    /\ [](/\ dnsRequests <= 4
          /\ dnsPc = "fetch" => Len(dnsSlept) = dnsRequests
          /\ dnsPc \in {"sleep", "done"} => Len(dnsSlept) = dnsRequests - 1
          /\ \A i \in 1..Len(dnsSlept) : dnsSlept[i] = 1000 * 2 ^ (i - 1)
          /\ dnsPc = "done"
             => /\ dnsResult # None
                /\ dnsResult[1] \in { <<>>, <<"140", "82", "112", "3">>,
                                      <<"140", "82", "112", "4">> })
    /\ (dnsPc = "fetch" ~> dnsPc = "done")

\* a call that got an address at its fourth request, after three network
\* errors
C15_Witness ==
    /\ dnsPc = "done"
    /\ dnsRequests = 4
    /\ dnsSlept = <<1000, 2000, 4000>>
    /\ dnsResult = Some(<<"140", "82", "112", "4">>)

\* ---- C16
\* C16: during a fetchLatestHostsData run at most 5 resolver calls are in
\* flight, and none while the run sleeps between two batches; the list it
\* returns holds, in configured order and once each, the (ip, domain) pairs
\* of exactly the configured domains whose call returned an address.
C16_BatchesOfFive ==
    /\ Cardinality(fbPending) <= 5
    /\ fbPc \in {"delay", "done"} => fbPending = {}
    /\ fbPc = "done"
       => LET ok == {k \in 1..Len(FetchUrls) : fbAnswer[FetchUrls[k]] # NoIP}
          IN  /\ DOMAIN fbAnswer =
                     {FetchUrls[k] : k \in 1..Len(FetchUrls)}
              /\ Len(fbEntries) = Cardinality(ok)
              /\ \A k \in ok :
                    fbEntries[Cardinality({j \in ok : j <= k})]
                        = <<fbAnswer[FetchUrls[k]], FetchUrls[k]>>

\* a finished run of two batches in which one domain of each batch did not
\* resolve
C16_Witness ==
    /\ fbPc = "done"
    /\ fbI = 5
    /\ fbAnswer[FetchUrls[2]] = NoIP
    /\ fbAnswer[FetchUrls[7]] = NoIP
    /\ Len(fbEntries) = 5
    /\ fbEntries[5][2] = FetchUrls[6]

\* ---- C17
\* C17: however requests of one normalized address interleave, at most
\* limit requests of a window are passed to the handler, and the counter
\* stored for the window is the number of requests passed so far.
C17_AtMostLimitAdmitted ==
    \A key \in DOMAIN rlAdmitted :
        /\ rlAdmitted[key] <= limit
        /\ CounterAt(key) = rlAdmitted[key]

\* ---- C18
\* C18: when getHostsData answers from the cache without refreshing, every
\* record it returns was checked within the last hour:
\* now - lastChecked <= 1 hour for each returned domain.
C18_FreshAnswerIsRecentlyChecked ==
    [][\A p \in Procs :
        ( Calls(p, "getHostsData") /\ path'[p] = "fresh" )
        => \A i \in 1..Len(result'[p]) :
              now - kv[1].domain_data[result'[p][i][2]].lastChecked
                  <= 60 * 60 * 1000 ]_vars

\* ---- C19
\* C19: a getHostsData call that found the snapshot stale and resolved no
\* domain leaves the snapshot stale: when it returns, the snapshot is
\* absent, or holds no record, or its lastUpdated is more than 1 hour old.
C19_EmptyRefreshLeavesStale ==
    [][\A p \in Procs :
        ( /\ op[p] = "getHostsData" /\ pc[p] = "up_put" /\ Acted(p)
          /\ newEntries[p] = <<>> )
        => \/ kv' = None
           \/ DOMAIN kv'[1].domain_data = {}
           \/ now - kv'[1].lastUpdated > 60 * 60 * 1000 ]_vars

\* ---- C20
\* C20: when resetHostsData returns, the stored snapshot holds records for
\* exactly the domains of the list it returns, also when other calls
\* overlap the reset.
C20_ResetLeavesOnlyItsEntries ==
    [][\A p \in Procs :
        ( op[p] = "resetHostsData" /\ pc[p] = "up_put" /\ Acted(p) )
        => /\ kv' # None
           /\ DOMAIN kv'[1].domain_data = EntryDomains(result'[p]) ]_vars

====
